---- MODULE Spec2Model ----
(***************************************************************************)
(* Test viewer (avantifellows/af-test-viewer): the page controller `Home`  *)
(* with answer selection, per-question and whole-test submission, scoring, *)
(* AI hint / solution requests and test loading, modelled as a state       *)
(* machine of user events and asynchronous completions.                    *)
(*                                                                         *)
(* JavaScript values are modelled as follows.                              *)
(*  - an object is a function whose domain is the set of its own fields;   *)
(*    an absent (undefined) field is a field outside the domain, and the   *)
(*    spread `{...a, f: v}` is Merge(a, [f |-> v]);                        *)
(*  - a string that the code inspects character by character (an answer,   *)
(*    an option letter) is a sequence of one-character strings;            *)
(*  - the value of Problem.answer is a tagged record, see AnsNum etc.      *)
(***************************************************************************)
EXTENDS Integers, Sequences, FiniteSets, Bags, TLC

\* ------------------------------------------------------------------ bounds
\* longest answer string fed to getCorrectAnswer in the function-level spec
MaxStrLen == 3
\* largest numeric answer fed to getCorrectAnswer in the function-level spec
MaxNum == 4
\* hint / solution requests issued in one run of Spec
MaxReq == 2
\* test loads started in one run of Spec by the user who loads again
MaxLoads == 2
\* hint requests issued in one run of SpecOneQuestion
MaxHints == 5

\* ------------------------------------------------------- JavaScript values
EmptyObj == [x \in {} |-> 0]

Has(obj, f) == f \in DOMAIN obj

\* obj?.f || dflt   (every default used in the code is the falsy value of
\* the field's type, so a present falsy field and an absent one coincide)
Get(obj, f, dflt) == IF f \in DOMAIN obj THEN obj[f] ELSE dflt

\* {...a, ...b}
Merge(a, b) ==
  [f \in (DOMAIN a) \cup (DOMAIN b) |-> IF f \in DOMAIN b THEN b[f] ELSE a[f]]

\* map[k] as a spread source: `...prev[k]` of an absent entry adds nothing
Lookup(map, k) == IF k \in DOMAIN map THEN map[k] ELSE EmptyObj

\* {...map, [k]: v}
Put(map, k, v) ==
  [x \in (DOMAIN map) \cup {k} |-> IF x = k THEN v ELSE map[x]]

\* a value of Problem.answer (string | number | (string | number)[], or
\* null / undefined as the CMS may deliver it): t is its type, n the number,
\* s the characters of the string, a the elements of the array
AnsUndef == [t |-> "undefined", n |-> 0, s |-> << >>, a |-> << >>]
AnsNull == [t |-> "null", n |-> 0, s |-> << >>, a |-> << >>]
AnsNum(n) == [t |-> "number", n |-> n, s |-> << >>, a |-> << >>]
AnsStr(s) == [t |-> "string", n |-> 0, s |-> s, a |-> << >>]
AnsArr(xs) == [t |-> "array", n |-> 0, s |-> << >>, a |-> xs]

\* the characters answer strings are built from: digits, an upper-case and
\* a lower-case letter and white space (no sign, '.', 'e' or 'x', so the only
\* strings Number() accepts are white-space-padded digit strings)
Chars == {"1", "2", "C", "c", " "}
Digits == {"1", "2"}
DigitValue(c) == IF c = "1" THEN 1 ELSE 2

Alphabet ==
  << "A", "B", "C", "D", "E", "F", "G", "H", "I", "J", "K", "L", "M",
     "N", "O", "P", "Q", "R", "S", "T", "U", "V", "W", "X", "Y", "Z" >>

\* String.fromCharCode(code): '@' is code 64, 'A'..'Z' are 65..90; every
\* other code unit is a character that is not a letter
fromCharCode(code) ==
  IF code = 64 THEN "@"
  ELSE IF code >= 65 /\ code <= 90 THEN Alphabet[code - 64]
  ELSE "<non-letter>"

RECURSIVE TrimStart(_)
TrimStart(s) ==
  IF s # << >> /\ Head(s) = " " THEN TrimStart(Tail(s)) ELSE s

RECURSIVE TrimEnd(_)
TrimEnd(s) ==
  IF s # << >> /\ s[Len(s)] = " " THEN TrimEnd(SubSeq(s, 1, Len(s) - 1)) ELSE s

\* String.prototype.trim
trim(s) == TrimEnd(TrimStart(s))

\* String.prototype.toUpperCase
toUpperCase(s) == [i \in 1..Len(s) |-> IF s[i] = "c" THEN "C" ELSE s[i]]

RECURSIVE DecimalValue(_)
DecimalValue(s) ==
  IF s = << >> THEN 0
  ELSE 10 * DecimalValue(SubSeq(s, 1, Len(s) - 1)) + DigitValue(s[Len(s)])

\* Number(x): [nan |-> TRUE] is NaN
ToNumber(x) ==
  IF x.t = "number" THEN [nan |-> FALSE, n |-> x.n]
  ELSE IF x.t = "null" THEN [nan |-> FALSE, n |-> 0]
  ELSE IF x.t = "string" THEN
    LET s == trim(x.s) IN
      IF \A i \in 1..Len(s) : s[i] \in Digits
        THEN [nan |-> FALSE, n |-> DecimalValue(s)]
        ELSE [nan |-> TRUE, n |-> 0]
  ELSE [nan |-> TRUE, n |-> 0]

\* String(x || '')
StringOrEmpty(x) == IF x.t = "string" THEN x.s ELSE << >>

\* getCorrectAnswer counting positions from 0 (sensitivity of C7)
getCorrectAnswer_ZeroBased(problem) ==
  LET rawAnswer ==
        IF problem.answer.t = "array"
          THEN IF Len(problem.answer.a) > 0 THEN problem.answer.a[1] ELSE AnsUndef
          ELSE problem.answer
  IN IF rawAnswer.t = "number" \/ ~ToNumber(rawAnswer).nan
       THEN << fromCharCode(65 + ToNumber(rawAnswer).n) >>
       ELSE trim(toUpperCase(StringOrEmpty(rawAnswer)))

\* const getCorrectAnswer = (problem: Problem): string
getCorrectAnswer(problem) ==
  LET rawAnswer ==
        IF problem.answer.t = "array"
          THEN IF Len(problem.answer.a) > 0 THEN problem.answer.a[1] ELSE AnsUndef
          ELSE problem.answer
  IN IF rawAnswer.t = "number" \/ ~ToNumber(rawAnswer).nan
       THEN << fromCharCode(64 + ToNumber(rawAnswer).n) >>
       ELSE trim(toUpperCase(StringOrEmpty(rawAnswer)))

\* ------------------------------------------------------------ test source
Problem(nOptions, answer) == [options |-> nOptions, answer |-> answer]

\* problemKey = `${sectionIdx}-${problemIdx}`: one section of two problems
Keys == {"0-0", "0-1"}

\* a test document: its problems by problemKey
Doc(p0, p1) == ("0-0" :> p0) @@ ("0-1" :> p1)

\* the documents the CMS holds, by test id: the answer of the first problem
\* is the CMS's usual one-element array, the second problem has a null answer
Docs == "t1" :> Doc(Problem(2, AnsArr(<< AnsStr(<< "1" >>) >>)), Problem(2, AnsNull))

\* the shapes an answer takes: 1, "2", "C", ["1"], a padded numeric string,
\* a lower-case letter, and the empty or absent ones
AnswerCases ==
  { AnsNum(1), AnsStr(<< "2" >>), AnsStr(<< "C" >>), AnsArr(<< AnsStr(<< "1" >>) >>),
    AnsStr(<< " ", "2", " " >>), AnsStr(<< "c" >>),
    AnsUndef, AnsNull, AnsStr(<< >>), AnsArr(<< >>) }

\* the empty or absent answers
EmptyAnswers == { AnsUndef, AnsNull, AnsStr(<< >>), AnsArr(<< >>) }

\* what the user can type into the test id input
TestIdInputs == {"", "t1"}

\* !targetId.trim()
IsBlank(id) == id \in {"", " "}

\* the error body of the test route, and the client's own message
FetchErrors == {"Test not found", "Failed to fetch test"}

\* error messages a hint request can end with: the route's error body, or
\* the client's fallback
HintErrors == {"Failed to generate solution", "Failed to generate hint"}

\* error messages a solution request can end with
SolutionErrors == {"Failed to generate solution"}

\* the texts the gateway answers a solution request with
SolutionTexts == {"s1", "s2"}

\* String.fromCharCode(65 + optIdx)
optionLetter(optIdx) == << fromCharCode(65 + optIdx) >>

OptionLetters(problem) == {optionLetter(i) : i \in 0..(problem.options - 1)}

\* ------------------------------------------------------------------- state
VARIABLES
  testId,          \* useState(""): content of the test id input
  test,            \* useState(null): id of the loaded document, or "null"
  error,           \* useState(null): displayed error, or "null"
  loading,         \* useState(false)
  solutions,       \* useState({}): problemKey -> SolutionState
  questionStates,  \* useState({}): problemKey -> QuestionState
  testSubmitted,   \* useState(false)
  hintReqs,        \* bag of the hint requests awaiting their response
  solReqs,         \* bag of the solution requests awaiting their response
  testReqs,        \* bag of the test loads awaiting their response
  issued,          \* number of hint / solution requests issued so far (history)
  loads,           \* number of test loads started so far (history)
  cms,             \* environment: the documents of the CMS, by test id
  limits,          \* environment: what the user of this run does at most
  fnPc,            \* function-level check: "idle", "called" or "returned"
  fnIn,            \* function-level check: the argument
  fnOut,           \* function-level check: the result
  routePc,         \* server route: "idle", "called" or "returned"
  routeIn,         \* server route: the request and what the upstream does
  routeOut         \* server route: the response

vars ==
  << testId, test, error, loading, solutions, questionStates, testSubmitted,
     hintReqs, solReqs, testReqs, issued, loads, cms, limits, fnPc, fnIn, fnOut,
     routePc, routeIn, routeOut >>

\* the state of the page
pageVars ==
  << testId, test, error, loading, solutions, questionStates, testSubmitted >>

\* what no action of the page changes
envVars == << cms, limits, fnPc, fnIn, fnOut, routePc, routeIn, routeOut >>

PageInit ==
  /\ testId = ""
  /\ test = "null"
  /\ error = "null"
  /\ loading = FALSE
  /\ solutions = EmptyObj
  /\ questionStates = EmptyObj
  /\ testSubmitted = FALSE
  /\ hintReqs = EmptyBag
  /\ solReqs = EmptyBag
  /\ testReqs = EmptyBag
  /\ issued = 0
  /\ loads = 0

FnIdle ==
  /\ fnPc = "idle"
  /\ fnIn = AnsUndef
  /\ fnOut = << >>

\* no server route is under check
RouteIdle ==
  /\ routePc = "idle"
  /\ routeIn = "none"
  /\ routeOut = "none"

\* what the user of one run does at most: either works on every question of
\* one load of the test, or works on the first question and starts up to
\* MaxLoads loads (so that requests outlive the state they were issued
\* under); either way issues at most MaxReq hint / solution requests
UserProfiles ==
  { [req |-> MaxReq, inFlight |-> MaxReq, loads |-> 1, keys |-> Keys],
    [req |-> MaxReq, inFlight |-> MaxReq, loads |-> MaxLoads, keys |-> {"0-0"}] }

\* the page after construction
Init ==
  /\ PageInit
  /\ FnIdle
  /\ RouteIdle
  /\ cms = Docs
  /\ limits \in UserProfiles

\* the page after construction; the user loads one test whose first question
\* has any of the answer shapes, works on that question only, and asks for up
\* to MaxHints hints one after the other
InitOneQuestion ==
  /\ PageInit
  /\ FnIdle
  /\ RouteIdle
  /\ cms \in {"t1" :> Doc(Problem(2, a), Problem(2, AnsNull)) : a \in AnswerCases}
  /\ limits = [req |-> MaxHints, inFlight |-> 1, loads |-> 1, keys |-> {"0-0"}]

\* the problem rendered under problemKey k of the loaded test
problemAt(k) == cms[test][k]

\* the keys the loaded test renders
RenderedKeys == IF test = "null" THEN {} ELSE DOMAIN cms[test]

qState(k) == Lookup(questionStates, k)

solutionState(k) == Lookup(solutions, k)

\* const isQuestionSubmitted = qState?.submitted || testSubmitted
isQuestionSubmitted(k) == Get(qState(k), "submitted", FALSE) \/ testSubmitted

\* !state?.selectedAnswer
NoSelection(state) ==
  ~Has(state, "selectedAnswer") \/ state.selectedAnswer = << >>

\* const showResult = isQuestionSubmitted && qState?.submitted: the options
\* of the question are coloured correct / incorrect
showResult(k) == isQuestionSubmitted(k) /\ Get(qState(k), "submitted", FALSE)

\* {qState?.submitted && (...)}: the result display (Correct / Incorrect,
\* score, correct answer) of the question is rendered
ResultDisplayRendered(k) == Get(qState(k), "submitted", FALSE)

\* --------------------------------------------------------------- handlers
\* Each handler below is the value the state variable gets, computed from
\* the state of the render whose closure the handler belongs to.  React
\* renders between two discrete events, so that render is the current state.

\* selectAnswer without its testSubmitted guard (sensitivity of C2)
selectAnswer_IgnoresTestSubmitted(problemKey, answer) ==
  IF Get(qState(problemKey), "submitted", FALSE)
    THEN questionStates
    ELSE Put(questionStates, problemKey,
             Merge(qState(problemKey),
                   [selectedAnswer |-> answer,
                    submitted |-> FALSE,
                    hintsUsed |-> Get(qState(problemKey), "hintsUsed", 0),
                    score |-> 0]))

\* selectAnswer that starts the hint count again (sensitivity of C4)
selectAnswer_ResetsHints(problemKey, answer) ==
  IF testSubmitted \/ Get(qState(problemKey), "submitted", FALSE)
    THEN questionStates
    ELSE Put(questionStates, problemKey,
             Merge(qState(problemKey),
                   [selectedAnswer |-> answer,
                    submitted |-> FALSE,
                    hintsUsed |-> 0,
                    score |-> 0]))

\* selectAnswer(problemKey, answer): the new questionStates
selectAnswer(problemKey, answer) ==
  IF testSubmitted \/ Get(qState(problemKey), "submitted", FALSE)
    THEN questionStates
    ELSE Put(questionStates, problemKey,
             Merge(qState(problemKey),
                   [selectedAnswer |-> answer,
                    submitted |-> FALSE,
                    hintsUsed |-> Get(qState(problemKey), "hintsUsed", 0),
                    score |-> 0]))

Max(a, b) == IF a >= b THEN a ELSE b

\* scoreOf without the floor at 0 (sensitivity of C1)
scoreOf_NoFloor(isCorrect, hintsUsed) == IF isCorrect THEN 4 - hintsUsed ELSE 0

\* scoreOf with negative marking of a wrong answer (sensitivity of C27)
scoreOf_NegativeMarking(isCorrect, hintsUsed) ==
  IF isCorrect THEN Max(0, 4 - hintsUsed) ELSE 0 - 1

\* score of a submission: +4 for correct, -1 per hint, minimum 0
scoreOf(isCorrect, hintsUsed) == IF isCorrect THEN Max(0, 4 - hintsUsed) ELSE 0

\* submitQuestion(problemKey, problem): the new questionStates
submitQuestion(problemKey, problem) ==
  LET state == qState(problemKey) IN
  IF NoSelection(state) \/ state.submitted
    THEN questionStates
    ELSE LET isCorrect == state.selectedAnswer = getCorrectAnswer(problem)
             score == scoreOf(isCorrect, Get(state, "hintsUsed", 0))
         IN Put(questionStates, problemKey,
                Merge(qState(problemKey),
                      [submitted |-> TRUE, isCorrect |-> isCorrect, score |-> score]))

\* calculateTotalScore
RECURSIVE SumScores(_, _)
SumScores(qs, ks) ==
  IF ks = {} THEN 0
  ELSE LET k == CHOOSE x \in ks : TRUE
       IN (IF qs[k].submitted THEN qs[k].score ELSE 0) + SumScores(qs, ks \ {k})

calculateTotalScore == SumScores(questionStates, DOMAIN questionStates)

\* counting every question state, submitted or not (sensitivity of C16)
CountSubmitted_All(qs) == Cardinality(DOMAIN qs)

\* Object.values(qs).filter((s) => s.submitted).length
CountSubmitted(qs) == Cardinality({k \in DOMAIN qs : qs[k].submitted})

\* countAnsweredQuestions
countAnsweredQuestions == CountSubmitted(questionStates)

\* generateHint clearing the hints while the next one loads (sensitivity of C24)
hintStarted_ClearsHints(problemKey) ==
  Put(solutions, problemKey,
      Merge(solutionState(problemKey),
            [hintLoading |-> TRUE,
             solutionLoading |-> Get(solutionState(problemKey), "solutionLoading", FALSE),
             aiHints |-> << >>,
             showPanel |-> TRUE]))

\* generateHint, up to the fetch: the new solutions
hintStarted(problemKey) ==
  Put(solutions, problemKey,
      Merge(solutionState(problemKey),
            [hintLoading |-> TRUE,
             solutionLoading |-> Get(solutionState(problemKey), "solutionLoading", FALSE),
             aiHints |-> Get(solutionState(problemKey), "aiHints", << >>),
             showPanel |-> TRUE]))

\* hint response that replaces the hints instead of appending (sensitivity of C9)
hintSucceededSolutions_Replaces(problemKey, text) ==
  Put(solutions, problemKey,
      Merge(solutionState(problemKey),
            [hintLoading |-> FALSE, aiHints |-> << text >>]))

\* generateHint, response ok: the new solutions
hintSucceededSolutions(problemKey, text) ==
  Put(solutions, problemKey,
      Merge(solutionState(problemKey),
            [hintLoading |-> FALSE,
             aiHints |-> Append(Get(solutionState(problemKey), "aiHints", << >>), text)]))

\* hint response that writes submitted: false (sensitivity of C5)
hintSucceededQuestionStates_Unsubmits(problemKey) ==
  Put(questionStates, problemKey,
      Merge(qState(problemKey),
            [hintsUsed |-> Get(qState(problemKey), "hintsUsed", 0) + 1,
             submitted |-> FALSE,
             score |-> Get(qState(problemKey), "score", 0)]))

\* hint response that leaves hintsUsed as it was (sensitivity of C23)
hintSucceededQuestionStates_NoCount(problemKey) ==
  Put(questionStates, problemKey,
      Merge(qState(problemKey),
            [hintsUsed |-> Get(qState(problemKey), "hintsUsed", 0),
             submitted |-> Get(qState(problemKey), "submitted", FALSE),
             score |-> Get(qState(problemKey), "score", 0)]))

\* hint response that takes the hint's point off the recorded score
\* (sensitivity of C29)
hintSucceededQuestionStates_Rescores(problemKey) ==
  Put(questionStates, problemKey,
      Merge(qState(problemKey),
            [hintsUsed |-> Get(qState(problemKey), "hintsUsed", 0) + 1,
             submitted |-> Get(qState(problemKey), "submitted", FALSE),
             score |-> Max(0, Get(qState(problemKey), "score", 0) - 1)]))

\* generateHint, response ok: the new questionStates (hints used for scoring)
hintSucceededQuestionStates(problemKey) ==
  Put(questionStates, problemKey,
      Merge(qState(problemKey),
            [hintsUsed |-> Get(qState(problemKey), "hintsUsed", 0) + 1,
             submitted |-> Get(qState(problemKey), "submitted", FALSE),
             score |-> Get(qState(problemKey), "score", 0)]))

\* failed hint that also drops the hints received so far (sensitivity of C8)
hintFailed_DropsHints(problemKey, message) ==
  Put(solutions, problemKey,
      Merge(solutionState(problemKey),
            [hintLoading |-> FALSE, hintError |-> message, aiHints |-> << >>]))

\* failed hint that leaves hintLoading set (sensitivity of C26)
hintFailed_KeepsLoading(problemKey, message) ==
  Put(solutions, problemKey,
      Merge(solutionState(problemKey),
            [hintLoading |-> Get(solutionState(problemKey), "hintLoading", FALSE),
             hintError |-> message]))

\* generateHint, catch: the new solutions
hintFailed(problemKey, message) ==
  Put(solutions, problemKey,
      Merge(solutionState(problemKey),
            [hintLoading |-> FALSE, hintError |-> message]))

\* generateSolution, up to the fetch: the new solutions
solutionStarted(problemKey) ==
  Put(solutions, problemKey,
      Merge(solutionState(problemKey),
            [solutionLoading |-> TRUE,
             hintLoading |-> Get(solutionState(problemKey), "hintLoading", FALSE),
             aiHints |-> Get(solutionState(problemKey), "aiHints", << >>),
             showPanel |-> TRUE]))

\* solution response that keeps an earlier solution (sensitivity of C13)
solutionSucceeded_KeepsFirst(problemKey, text) ==
  Put(solutions, problemKey,
      Merge(solutionState(problemKey),
            [solutionLoading |-> FALSE,
             aiSolution |-> Get(solutionState(problemKey), "aiSolution", text)]))

\* generateSolution, response ok: the new solutions
solutionSucceeded(problemKey, text) ==
  Put(solutions, problemKey,
      Merge(solutionState(problemKey),
            [solutionLoading |-> FALSE, aiSolution |-> text]))

\* failed solution request that empties the stored solution (sensitivity of C14)
solutionFailed_DropsSolution(problemKey, message) ==
  Put(solutions, problemKey,
      Merge(solutionState(problemKey),
            [solutionLoading |-> FALSE, solutionError |-> message, aiSolution |-> ""]))

\* generateSolution, catch: the new solutions
solutionFailed(problemKey, message) ==
  Put(solutions, problemKey,
      Merge(solutionState(problemKey),
            [solutionLoading |-> FALSE, solutionError |-> message]))

\* ------------------------------------------------------ requests in flight
BagAdd(B, e) == B (+) SetToBag({e})

BagRemove(B, e) == B (-) SetToBag({e})

\* number of requests of bag B that were issued for problemKey k
InFlightFor(B, k) ==
  BagCardinality([r \in {x \in BagToSet(B) : x.key = k} |-> CopiesIn(r, B)])

\* the requests of B once the state they were issued under is discarded:
\* nothing cancels them, `stale` (history) records the discard
MarkStale(B) ==
  LET S == {[r EXCEPT !.stale = TRUE] : r \in BagToSet(B)}
  IN [x \in S |-> CopiesIn(x, B) + CopiesIn([x EXCEPT !.stale = FALSE], B)]

\* the text the gateway answers a hint request with: the hint that follows
\* the previous hints the request carries
HintText(r) == Len(r.previousHints) + 1

\* ----------------------------------------------------------------- actions
\* A user event on a control is an action that is enabled whenever the
\* loaded test renders the question; when the control is not rendered or is
\* disabled the event is ignored and the step changes nothing.

\* onChange of the test id input
SetTestId(v) ==
  /\ v # testId
  /\ testId' = v
  /\ UNCHANGED << test, error, loading, solutions, questionStates, testSubmitted,
                  hintReqs, solReqs, testReqs >>
  /\ UNCHANGED << issued, loads >>
  /\ UNCHANGED envVars

\* fetchTest(): targetId = id || testId, and the UI never passes an id
fetchTest ==
  IF IsBlank(testId)
    THEN /\ error' = "Please enter a Test ID"
         /\ UNCHANGED << testId, test, loading, solutions, questionStates,
                         testSubmitted, hintReqs, solReqs, testReqs, loads >>
    ELSE /\ loads < limits.loads
         /\ loads' = loads + 1
         /\ loading' = TRUE
         /\ error' = "null"
         /\ test' = "null"
         /\ solutions' = EmptyObj
         /\ questionStates' = EmptyObj
         /\ testSubmitted' = FALSE
         /\ testReqs' = BagAdd(testReqs, testId)
         /\ hintReqs' = MarkStale(hintReqs)
         /\ solReqs' = MarkStale(solReqs)
         /\ UNCHANGED testId

\* the Fetch Test button, disabled while loading
FetchTestClick ==
  /\ ~loading
  /\ fetchTest
  /\ UNCHANGED issued
  /\ UNCHANGED envVars

\* Enter in the test id input
FetchTestEnter ==
  /\ fetchTest
  /\ UNCHANGED issued
  /\ UNCHANGED envVars

\* fetchTest, response.ok: setTest(data); finally setLoading(false)
FetchTestOk(targetId) ==
  /\ BagIn(targetId, testReqs)
  /\ targetId \in DOMAIN cms
  /\ testReqs' = BagRemove(testReqs, targetId)
  /\ test' = targetId
  /\ loading' = FALSE
  /\ UNCHANGED << testId, error, solutions, questionStates, testSubmitted,
                  hintReqs, solReqs >>
  /\ UNCHANGED << issued, loads >>
  /\ UNCHANGED envVars

\* fetchTest, !response.ok or exception: setError(...); finally setLoading(false)
FetchTestFailed(targetId, message) ==
  /\ BagIn(targetId, testReqs)
  /\ testReqs' = BagRemove(testReqs, targetId)
  /\ error' = message
  /\ loading' = FALSE
  /\ UNCHANGED << testId, test, solutions, questionStates, testSubmitted,
                  hintReqs, solReqs >>
  /\ UNCHANGED << issued, loads >>
  /\ UNCHANGED envVars

\* the Back button
BackClick ==
  /\ test # "null"
  /\ test' = "null"
  /\ solutions' = EmptyObj
  /\ questionStates' = EmptyObj
  /\ testSubmitted' = FALSE
  /\ hintReqs' = MarkStale(hintReqs)
  /\ solReqs' = MarkStale(solReqs)
  /\ UNCHANGED << testId, error, loading, testReqs >>
  /\ UNCHANGED << issued, loads >>
  /\ UNCHANGED envVars

\* onClick of an option: !isQuestionSubmitted && selectAnswer(problemKey, optionLetter)
OptionClick(k, letter) ==
  /\ k \in RenderedKeys
  /\ letter \in OptionLetters(problemAt(k))
  /\ questionStates' =
       IF ~isQuestionSubmitted(k) THEN selectAnswer(k, letter) ELSE questionStates
  /\ UNCHANGED << testId, test, error, loading, solutions, testSubmitted,
                  hintReqs, solReqs, testReqs >>
  /\ UNCHANGED << issued, loads >>
  /\ UNCHANGED envVars

\* Submit Answer button rendered without regard to testSubmitted (sensitivity of C3)
SubmitAnswerRendered_IgnoresTestSubmitted(k) ==
  ~Get(qState(k), "submitted", FALSE) /\ problemAt(k).options > 0

\* the Submit Answer button is rendered
SubmitAnswerRendered(k) == ~isQuestionSubmitted(k) /\ problemAt(k).options > 0

\* the Submit Answer button: disabled={!qState?.selectedAnswer}
SubmitAnswerClick(k) ==
  /\ k \in RenderedKeys
  /\ questionStates' =
       IF SubmitAnswerRendered(k) /\ ~NoSelection(qState(k))
         THEN submitQuestion(k, problemAt(k))
         ELSE questionStates
  /\ UNCHANGED << testId, test, error, loading, solutions, testSubmitted,
                  hintReqs, solReqs, testReqs >>
  /\ UNCHANGED << issued, loads >>
  /\ UNCHANGED envVars

\* submitTest
submitTest == TRUE

\* Submit Test button that also submits every question (sensitivity of C17)
SubmitTestClick_AutoSubmits ==
  /\ test # "null"
  /\ testSubmitted' = (IF ~testSubmitted THEN submitTest ELSE testSubmitted)
  /\ questionStates' =
       [k \in DOMAIN questionStates |-> Merge(questionStates[k], [submitted |-> TRUE])]
  /\ UNCHANGED << testId, test, error, loading, solutions,
                  hintReqs, solReqs, testReqs >>
  /\ UNCHANGED << issued, loads >>
  /\ UNCHANGED envVars

\* the Submit Test button, rendered while !testSubmitted
SubmitTestClick ==
  /\ test # "null"
  /\ testSubmitted' = (IF ~testSubmitted THEN submitTest ELSE testSubmitted)
  /\ UNCHANGED << testId, test, error, loading, solutions, questionStates,
                  hintReqs, solReqs, testReqs >>
  /\ UNCHANGED << issued, loads >>
  /\ UNCHANGED envVars

\* the hint button disabled while any question's hint is loading
\* (sensitivity of C25)
HintButtonEnabled_Global(k) ==
  /\ ~isQuestionSubmitted(k)
  /\ problemAt(k).options > 0
  /\ \A j \in DOMAIN solutions : ~Get(solutions[j], "hintLoading", FALSE)

\* the hint button is rendered and enabled
HintButtonEnabled(k) ==
  /\ ~isQuestionSubmitted(k)
  /\ problemAt(k).options > 0
  /\ ~Get(solutionState(k), "hintLoading", FALSE)

\* the hint button sending no hint history (sensitivity of C22)
HintClick_NoHistory(k) ==
  /\ k \in RenderedKeys
  /\ IF HintButtonEnabled(k)
       THEN /\ BagCardinality(hintReqs) + BagCardinality(solReqs) < limits.inFlight
            /\ issued < limits.req
            /\ issued' = issued + 1
            /\ solutions' = hintStarted(k)
            /\ hintReqs' = BagAdd(hintReqs,
                 [key |-> k, stale |-> FALSE, previousHints |-> << >>])
       ELSE UNCHANGED << solutions, hintReqs, issued >>
  /\ UNCHANGED << testId, test, error, loading, questionStates, testSubmitted,
                  solReqs, testReqs >>
  /\ UNCHANGED loads
  /\ UNCHANGED envVars

\* the hint button: generateHint(problemKey, problem) up to its fetch
HintClick(k) ==
  /\ k \in RenderedKeys
  /\ IF HintButtonEnabled(k)
       THEN /\ BagCardinality(hintReqs) + BagCardinality(solReqs) < limits.inFlight
            /\ issued < limits.req
            /\ issued' = issued + 1
            /\ solutions' = hintStarted(k)
            /\ hintReqs' = BagAdd(hintReqs,
                 [key |-> k, stale |-> FALSE,
                  previousHints |-> Get(solutionState(k), "aiHints", << >>)])
       ELSE UNCHANGED << solutions, hintReqs, issued >>
  /\ UNCHANGED << testId, test, error, loading, questionStates, testSubmitted,
                  solReqs, testReqs >>
  /\ UNCHANGED loads
  /\ UNCHANGED envVars

\* generateHint after its fetch, response ok
HintSuccess(r) ==
  /\ BagIn(r, hintReqs)
  /\ hintReqs' = BagRemove(hintReqs, r)
  /\ solutions' = hintSucceededSolutions(r.key, HintText(r))
  /\ questionStates' = hintSucceededQuestionStates(r.key)
  /\ UNCHANGED << testId, test, error, loading, testSubmitted, solReqs, testReqs >>
  /\ UNCHANGED << issued, loads >>
  /\ UNCHANGED envVars

\* generateHint after its fetch, !response.ok or exception
HintFailure(r, message) ==
  /\ BagIn(r, hintReqs)
  /\ hintReqs' = BagRemove(hintReqs, r)
  /\ solutions' = hintFailed(r.key, message)
  /\ UNCHANGED << testId, test, error, loading, questionStates, testSubmitted,
                  solReqs, testReqs >>
  /\ UNCHANGED << issued, loads >>
  /\ UNCHANGED envVars

\* the solution button as the simpler variant renders it, without the
\* submission gate (sensitivity of C15)
SolutionButtonEnabled_Ungated(k) ==
  ~Get(solutionState(k), "solutionLoading", FALSE)

\* the Generate AI Solution button is rendered and enabled
SolutionButtonEnabled(k) ==
  /\ isQuestionSubmitted(k)
  /\ ~Get(solutionState(k), "solutionLoading", FALSE)

\* the Generate AI Solution button: generateSolution up to its fetch
SolutionClick(k) ==
  /\ k \in RenderedKeys
  /\ IF SolutionButtonEnabled(k)
       THEN /\ BagCardinality(hintReqs) + BagCardinality(solReqs) < limits.inFlight
            /\ issued < limits.req
            /\ issued' = issued + 1
            /\ solutions' = solutionStarted(k)
            /\ solReqs' = BagAdd(solReqs, [key |-> k, stale |-> FALSE])
       ELSE UNCHANGED << solutions, solReqs, issued >>
  /\ UNCHANGED << testId, test, error, loading, questionStates, testSubmitted,
                  hintReqs, testReqs >>
  /\ UNCHANGED loads
  /\ UNCHANGED envVars

\* generateSolution after its fetch, response ok
SolutionSuccess(r, text) ==
  /\ BagIn(r, solReqs)
  /\ solReqs' = BagRemove(solReqs, r)
  /\ solutions' = solutionSucceeded(r.key, text)
  /\ UNCHANGED << testId, test, error, loading, questionStates, testSubmitted,
                  hintReqs, testReqs >>
  /\ UNCHANGED << issued, loads >>
  /\ UNCHANGED envVars

\* generateSolution after its fetch, !response.ok or exception
SolutionFailure(r, message) ==
  /\ BagIn(r, solReqs)
  /\ solReqs' = BagRemove(solReqs, r)
  /\ solutions' = solutionFailed(r.key, message)
  /\ UNCHANGED << testId, test, error, loading, questionStates, testSubmitted,
                  hintReqs, testReqs >>
  /\ UNCHANGED << issued, loads >>
  /\ UNCHANGED envVars

Next ==
  \/ \E v \in TestIdInputs : SetTestId(v)
  \/ FetchTestClick
  \/ FetchTestEnter
  \/ \E id \in BagToSet(testReqs) : FetchTestOk(id)
  \/ \E id \in BagToSet(testReqs), m \in FetchErrors : FetchTestFailed(id, m)
  \/ BackClick
  \/ \E k \in limits.keys, i \in 0..1 : OptionClick(k, optionLetter(i))
  \/ \E k \in limits.keys : SubmitAnswerClick(k)
  \/ SubmitTestClick
  \/ \E k \in limits.keys : HintClick(k)
  \/ \E r \in BagToSet(hintReqs) : HintSuccess(r)
  \/ \E r \in BagToSet(hintReqs), m \in HintErrors : HintFailure(r, m)
  \/ \E k \in limits.keys : SolutionClick(k)
  \/ \E r \in BagToSet(solReqs), t \in SolutionTexts : SolutionSuccess(r, t)
  \/ \E r \in BagToSet(solReqs), m \in SolutionErrors : SolutionFailure(r, m)

Spec == Init /\ [][Next]_vars

SpecOneQuestion == InitOneQuestion /\ [][Next]_vars

\* the continuation of an awaited fetch: generateHint or generateSolution
\* after the gateway has answered or failed
Completion ==
  \/ \E r \in BagToSet(hintReqs) : HintSuccess(r)
  \/ \E r \in BagToSet(hintReqs), m \in HintErrors : HintFailure(r, m)
  \/ \E r \in BagToSet(solReqs), t \in SolutionTexts : SolutionSuccess(r, t)
  \/ \E r \in BagToSet(solReqs), m \in SolutionErrors : SolutionFailure(r, m)

\* the page with a gateway that eventually answers or errors: a pending
\* fetch settles and the event loop then runs the handler's continuation
SpecFair == Init /\ [][Next]_vars /\ WF_vars(Completion)

\* ------------------------------------------- getCorrectAnswer on its own
\* the strings of at most MaxStrLen characters
Strings == UNION {[1..n -> Chars] : n \in 0..MaxStrLen}

\* what an array answer holds: numbers and strings of at most one character
ArrayElems ==
  {AnsNum(n) : n \in 0..MaxNum} \cup {AnsStr(s) : s \in {x \in Strings : Len(x) <= 1}}

\* the answers getCorrectAnswer is applied to
AnswerInputs ==
  {AnsUndef, AnsNull}
    \cup {AnsNum(n) : n \in 0..MaxNum}
    \cup {AnsStr(s) : s \in Strings}
    \cup {AnsArr(<< >>)}
    \cup {AnsArr(<< e >>) : e \in ArrayElems}
    \cup {AnsArr(<< e, AnsNum(1) >>) : e \in ArrayElems}

InitAnswer ==
  /\ PageInit
  /\ cms = Docs
  /\ limits = [req |-> 0, inFlight |-> 0, loads |-> 0, keys |-> {}]
  /\ fnPc = "called"
  /\ fnIn \in AnswerInputs
  /\ fnOut = << >>
  /\ RouteIdle

\* getCorrectAnswer(problem) returns
GetCorrectAnswerReturn ==
  /\ fnPc = "called"
  /\ fnPc' = "returned"
  /\ fnOut' = getCorrectAnswer(Problem(2, fnIn))
  /\ UNCHANGED << testId, test, error, loading, solutions, questionStates,
                  testSubmitted, hintReqs, solReqs, testReqs, issued, loads,
                  cms, limits, fnIn, routePc, routeIn, routeOut >>

NextAnswer == GetCorrectAnswerReturn

SpecAnswer == InitAnswer /\ [][NextAnswer]_vars

\* ------------------------------------------------------------- properties
\* C1: when the Submit Answer click takes effect for a key (an option is
\* selected, the question is not submitted) the question becomes submitted,
\* isCorrect is whether the selected letter is the correct letter of the
\* problem, and score is max(0, 4 - hintsUsed) for the hint count of that
\* moment when correct and 0 otherwise: 4, 2, 0 for 0, 2, 5 hints.
C1_SubmitQuestionScores ==
  [][\A k \in Keys :
       (SubmitAnswerClick(k) /\ ~isQuestionSubmitted(k) /\ ~NoSelection(qState(k)))
       => LET h == Get(qState(k), "hintsUsed", 0)
              c == (qState(k).selectedAnswer = getCorrectAnswer(problemAt(k)))
              after == questionStates'[k]
          IN /\ after.submitted
             /\ after.isCorrect = c
             /\ after.score = (IF c THEN (IF h >= 4 THEN 0 ELSE 4 - h) ELSE 0)
             /\ (c /\ h = 0) => after.score = 4
             /\ (c /\ h = 2) => after.score = 2
             /\ (c /\ h = 5) => after.score = 0
             /\ after.selectedAnswer = qState(k).selectedAnswer
             /\ after.hintsUsed = h]_vars

\* a correct answer submitted after five hints, scored 0
C1_Witness ==
  \E k \in RenderedKeys :
    /\ Get(qState(k), "submitted", FALSE)
    /\ Get(qState(k), "isCorrect", FALSE)
    /\ Get(qState(k), "hintsUsed", 0) = 5
    /\ qState(k).score = 0

\* C2: once the test is submitted, selecting an option changes nothing:
\* selectAnswer returns the question states it was given for every key and
\* letter, and an option click leaves the whole state as it was.
C2_SelectAfterSubmitTestNoOp ==
  /\ [](testSubmitted =>
          \A k \in Keys, i \in 0..1 : selectAnswer(k, optionLetter(i)) = questionStates)
  /\ [][testSubmitted =>
          \A k \in Keys, i \in 0..1 : OptionClick(k, optionLetter(i)) => UNCHANGED vars]_vars

\* the test is submitted while a question holds the selection A, unsubmitted
C2_Witness ==
  /\ testSubmitted
  /\ \E k \in RenderedKeys :
       /\ Get(qState(k), "selectedAnswer", << >>) = << "A" >>
       /\ ~qState(k).submitted

\* C3: once the test is submitted no Submit Answer click succeeds: the
\* submitted flag, isCorrect and score of every question (the whole state)
\* stay as they were, also for a question with an option selected before.
C3_NoSubmitQuestionAfterSubmitTest ==
  [][\A k \in Keys : (testSubmitted /\ SubmitAnswerClick(k)) => UNCHANGED vars]_vars

\* the test is submitted while a question holds its correct letter, unsubmitted
C3_Witness ==
  /\ testSubmitted
  /\ \E k \in RenderedKeys :
       /\ ~NoSelection(qState(k))
       /\ qState(k).selectedAnswer = getCorrectAnswer(problemAt(k))
       /\ ~qState(k).submitted
       /\ ~Has(qState(k), "isCorrect")

\* C4: an option click on a submitted question changes nothing; on a
\* question that is not submitted it stores the letter (selecting the stored
\* letter again changes nothing), leaves submitted = false and score = 0,
\* keeps the hint count of the key and leaves the other keys alone.
C4_SelectAnswer ==
  /\ [](\A k \in Keys, i \in 0..1 :
          (\/ Get(qState(k), "submitted", FALSE)
           \/ (~testSubmitted /\ Get(qState(k), "selectedAnswer", << >>) = optionLetter(i)))
          => selectAnswer(k, optionLetter(i)) = questionStates)
  /\ [][\A k \in Keys, i \in 0..1 :
          /\ (Get(qState(k), "submitted", FALSE) /\ OptionClick(k, optionLetter(i)))
               => UNCHANGED vars
          /\ (~isQuestionSubmitted(k) /\ OptionClick(k, optionLetter(i))) =>
               /\ questionStates'[k].selectedAnswer = optionLetter(i)
               /\ questionStates'[k].submitted = FALSE
               /\ questionStates'[k].score = 0
               /\ questionStates'[k].hintsUsed = Get(qState(k), "hintsUsed", 0)
               /\ \A o \in Keys \ {k} : Lookup(questionStates', o) = qState(o)]_vars

\* a selection on a question that has used a hint and is not submitted
C4_Witness ==
  \E k \in RenderedKeys :
    /\ Get(qState(k), "selectedAnswer", << >>) = << "B" >>
    /\ ~qState(k).submitted
    /\ qState(k).hintsUsed = 1
    /\ qState(k).score = 0

\* C5: a Submit Answer click changes nothing for a key without a selection
\* or an already submitted one (submitQuestion returns the question states
\* it was given), and while the same test stays loaded a submitted question
\* stays submitted.
C5_SubmitQuestionOneWay ==
  /\ [](\A k \in RenderedKeys :
          (NoSelection(qState(k)) \/ Get(qState(k), "submitted", FALSE))
          => submitQuestion(k, problemAt(k)) = questionStates)
  /\ [][\A k \in Keys :
          /\ ((NoSelection(qState(k)) \/ Get(qState(k), "submitted", FALSE))
                /\ SubmitAnswerClick(k)) => UNCHANGED vars
          /\ (test # "null" /\ test' = test /\ Get(qState(k), "submitted", FALSE)) =>
               /\ k \in DOMAIN questionStates'
               /\ questionStates'[k].submitted]_vars

\* a submitted question whose hint request is still awaiting its response
C5_Witness ==
  \E k \in RenderedKeys :
    /\ Get(qState(k), "submitted", FALSE)
    /\ \E r \in BagToSet(hintReqs) : r.key = k /\ ~r.stale

\* C6: getCorrectAnswer follows the answer rule on every input: with the
\* first element of an array, a number N or a numeric string N (white space
\* around it allowed) gives the N-th letter, any other string gives the
\* string upper-cased and trimmed, null or absent gives the empty string.
C6_CorrectLetterRule ==
  fnPc = "returned" =>
    LET raw == IF fnIn.t = "array"
                 THEN IF Len(fnIn.a) > 0 THEN fnIn.a[1] ELSE AnsUndef
                 ELSE fnIn
        digits == raw.t = "string" /\ trim(raw.s) # << >>
                    /\ \A i \in 1..Len(trim(raw.s)) : trim(raw.s)[i] \in Digits
        N == IF raw.t = "number" THEN raw.n ELSE DecimalValue(trim(raw.s))
    IN IF raw.t = "number" \/ digits
         THEN N \in 1..26 => fnOut = << Alphabet[N] >>
         ELSE IF raw.t = "string"
           THEN fnOut = trim(toUpperCase(raw.s))
           ELSE fnOut = << >>

\* C7: a problem whose answer is undefined, null, the empty string or the
\* empty array is never correct: no option letter equals its correct answer,
\* and once submitted the question has isCorrect = false and score = 0.
C7_EmptyAnswerNeverCorrect ==
  \A k \in RenderedKeys :
    problemAt(k).answer \in EmptyAnswers =>
      /\ \A i \in 0..25 : optionLetter(i) # getCorrectAnswer(problemAt(k))
      /\ Get(qState(k), "submitted", FALSE) =>
           (~qState(k).isCorrect /\ qState(k).score = 0)

\* a submitted selection of A on the problem whose answer is the empty string
C7_Witness ==
  \E k \in RenderedKeys :
    /\ problemAt(k).answer = AnsStr(<< >>)
    /\ Get(qState(k), "submitted", FALSE)
    /\ qState(k).selectedAnswer = << "A" >>

\* C8: a failed hint response clears the hintLoading flag of its key and
\* stores the message in hintError; the hints, the solution fields and the
\* other keys of solutions stay as they were, and no question state (hint
\* count, score, selection) changes.
C8_FailedHint ==
  [][\A r \in BagToSet(hintReqs), m \in HintErrors :
       HintFailure(r, m) =>
         /\ solutions'[r.key].hintLoading = FALSE
         /\ solutions'[r.key].hintError = m
         /\ Get(solutions'[r.key], "aiHints", << >>) = Get(solutionState(r.key), "aiHints", << >>)
         /\ \A f \in {"aiSolution", "solutionLoading", "solutionError", "showPanel"} :
              /\ Has(solutions'[r.key], f) = Has(solutionState(r.key), f)
              /\ Has(solutionState(r.key), f) => solutions'[r.key][f] = solutionState(r.key)[f]
         /\ \A o \in Keys \ {r.key} : Lookup(solutions', o) = solutionState(o)
         /\ questionStates' = questionStates
         /\ testSubmitted' = testSubmitted]_vars

\* a key with one hint received and counted, and a later failure on record
C8_Witness ==
  \E k \in RenderedKeys :
    /\ Has(solutionState(k), "hintError")
    /\ ~Get(solutionState(k), "hintLoading", FALSE)
    /\ Len(Get(solutionState(k), "aiHints", << >>)) = 1
    /\ Get(qState(k), "hintsUsed", 0) = 1

\* C9: a successful hint response appends its text after the hints the key
\* already has, adds exactly 1 to the hint count of the key and clears the
\* hintLoading flag.
C9_SuccessfulHint ==
  [][\A r \in BagToSet(hintReqs) :
       HintSuccess(r) =>
         LET before == Get(solutionState(r.key), "aiHints", << >>)
             after == solutions'[r.key].aiHints
         IN /\ Len(after) = Len(before) + 1
            /\ SubSeq(after, 1, Len(before)) = before
            /\ after[Len(after)] = HintText(r)
            /\ questionStates'[r.key].hintsUsed = Get(qState(r.key), "hintsUsed", 0) + 1
            /\ solutions'[r.key].hintLoading = FALSE]_vars

\* a key that holds a second hint after its first
C9_Witness ==
  \E k \in RenderedKeys :
    /\ Get(solutionState(k), "aiHints", << >>) = << 1, 2 >>
    /\ qState(k).hintsUsed = 2
    /\ ~solutionState(k).hintLoading

\* C10: at most one hint request per key is awaiting its response at any
\* time, and a hint click on a key whose hintLoading flag is set changes
\* nothing.
C10_OneHintInFlightPerKey ==
  \A k \in Keys : InFlightFor(hintReqs, k) <= 1

\* C10, first half: a hint click on a key whose hintLoading flag is set
\* changes nothing.
C10_ClickWhilePendingIgnored ==
  [][\A k \in Keys :
       (HintClick(k) /\ Get(solutionState(k), "hintLoading", FALSE)) => UNCHANGED vars]_vars

\* C11: a hint or solution response whose request was issued under a state
\* that has since been discarded (a load was started or Back was pressed) is
\* ignored: when it arrives while the next test is shown, the step that
\* receives it changes neither solutions nor questionStates.
C11_StaleResponseIgnored ==
  [][/\ \A r \in BagToSet(hintReqs) :
          (r.stale /\ test # "null" /\ (HintSuccess(r) \/ \E m \in HintErrors : HintFailure(r, m)))
          => UNCHANGED << solutions, questionStates >>
     /\ \A r \in BagToSet(solReqs) :
          (r.stale /\ test # "null" /\ ((\E t \in SolutionTexts : SolutionSuccess(r, t))
                         \/ \E m \in SolutionErrors : SolutionFailure(r, m)))
          => UNCHANGED << solutions, questionStates >>]_vars

\* C12: the hint button of a rendered question that has options and no hint
\* request pending is available whatever the submission status: before the
\* question is submitted, after it is submitted and after the whole test is
\* submitted.
C12_HintAvailableRegardlessOfSubmission ==
  \A k \in RenderedKeys :
    (problemAt(k).options > 0 /\ ~Get(solutionState(k), "hintLoading", FALSE))
    => HintButtonEnabled(k)

\* C13: a successful solution response stores its text as the solution of
\* its key in place of any earlier one and clears the solutionLoading flag;
\* the hints and the other fields of the key, the other keys and every
\* question state stay as they were.
C13_SuccessfulSolutionReplaces ==
  [][\A r \in BagToSet(solReqs), t \in SolutionTexts :
       SolutionSuccess(r, t) =>
         /\ solutions'[r.key].aiSolution = t
         /\ solutions'[r.key].solutionLoading = FALSE
         /\ \A f \in {"aiHints", "hintLoading", "hintError", "solutionError", "showPanel"} :
              /\ Has(solutions'[r.key], f) = Has(solutionState(r.key), f)
              /\ Has(solutionState(r.key), f) => solutions'[r.key][f] = solutionState(r.key)[f]
         /\ \A o \in Keys \ {r.key} : Lookup(solutions', o) = solutionState(o)
         /\ questionStates' = questionStates
         /\ testSubmitted' = testSubmitted]_vars

\* two solution requests of one key have both succeeded within one load (no
\* hint was asked, nothing failed) and the key holds the second text
C13_Witness ==
  /\ issued = 2
  /\ loads = 1
  /\ hintReqs = EmptyBag
  /\ solReqs = EmptyBag
  /\ \E k \in RenderedKeys :
       /\ Get(solutionState(k), "aiSolution", "") = "s2"
       /\ ~Has(solutionState(k), "solutionError")
       /\ ~Has(solutionState(k), "hintError")
       /\ solutionState(k).aiHints = << >>
       /\ \A o \in Keys \ {k} : ~Has(solutions, o)

\* C14: a failed solution request stores the message in solutionError and
\* clears the solutionLoading flag of its key; the solution fetched before,
\* the hints, the other keys and every question state (hint count, score)
\* stay as they were.
C14_FailedSolution ==
  [][\A r \in BagToSet(solReqs), m \in SolutionErrors :
       SolutionFailure(r, m) =>
         /\ solutions'[r.key].solutionError = m
         /\ solutions'[r.key].solutionLoading = FALSE
         /\ \A f \in {"aiSolution", "aiHints", "hintLoading", "hintError", "showPanel"} :
              /\ Has(solutions'[r.key], f) = Has(solutionState(r.key), f)
              /\ Has(solutionState(r.key), f) => solutions'[r.key][f] = solutionState(r.key)[f]
         /\ \A o \in Keys \ {r.key} : Lookup(solutions', o) = solutionState(o)
         /\ questionStates' = questionStates
         /\ testSubmitted' = testSubmitted]_vars

\* a key that holds a fetched solution and the error of a failed request
C14_Witness ==
  \E k \in RenderedKeys :
    /\ Get(solutionState(k), "aiSolution", "") \in SolutionTexts
    /\ Has(solutionState(k), "solutionError")
    /\ ~solutionState(k).solutionLoading

\* C15: the solution button of a key is available only when the question or
\* the whole test is submitted, and every step that issues a solution
\* request issues it for a rendered key whose question or test is submitted.
C15_SolutionGated ==
  /\ [](\A k \in RenderedKeys :
          SolutionButtonEnabled(k) => (Get(qState(k), "submitted", FALSE) \/ testSubmitted))
  /\ [][BagCardinality(solReqs') > BagCardinality(solReqs) =>
          \E k \in RenderedKeys :
            /\ Get(qState(k), "submitted", FALSE) \/ testSubmitted
            /\ solReqs' = BagAdd(solReqs, [key |-> k, stale |-> FALSE])]_vars

\* a solution request in flight for a question that was not submitted itself,
\* issued once the whole test was submitted
C15_Witness ==
  /\ testSubmitted
  /\ \E r \in BagToSet(solReqs) :
       /\ ~r.stale
       /\ r.key \in RenderedKeys
       /\ ~Get(qState(r.key), "submitted", FALSE)

\* C16: in every state the total score is the sum of the scores of exactly
\* the submitted question states and the answered count is their number,
\* both computed from the current question states; on a map of three
\* questions, two submitted with scores 3 and 0 and one not submitted, the
\* total is 3 and the count is 2.
C16_TotalsRecomputed ==
  LET sub(k) == k \in DOMAIN questionStates /\ questionStates[k].submitted
      sc(k) == IF sub(k) THEN questionStates[k].score ELSE 0
      one(k) == IF sub(k) THEN 1 ELSE 0
      three ==
        ("0-0" :> [selectedAnswer |-> << "A" >>, submitted |-> TRUE,
                   isCorrect |-> TRUE, hintsUsed |-> 1, score |-> 3])
        @@ ("0-1" :> [selectedAnswer |-> << "B" >>, submitted |-> TRUE,
                      isCorrect |-> FALSE, hintsUsed |-> 0, score |-> 0])
        @@ ("0-2" :> [selectedAnswer |-> << "A" >>, submitted |-> FALSE,
                      hintsUsed |-> 0, score |-> 0])
  IN /\ DOMAIN questionStates \subseteq Keys
     /\ calculateTotalScore = sc("0-0") + sc("0-1")
     /\ countAnsweredQuestions = one("0-0") + one("0-1")
     /\ SumScores(three, DOMAIN three) = 3
     /\ CountSubmitted(three) = 2

\* one question submitted correct after one hint (3 points), the other
\* submitted incorrect (0 points): total 3, answered 2
C16_Witness ==
  /\ test # "null"
  /\ calculateTotalScore = 3
  /\ countAnsweredQuestions = 2
  /\ \E k \in RenderedKeys : qState(k).submitted /\ qState(k).score = 3 /\ qState(k).hintsUsed = 1

\* C17: the Submit Test click sets testSubmitted and changes nothing else:
\* every question state and every solution state is as before, so no
\* question is submitted by it and the total score and the answered count
\* are the same; on a submitted test submitTest changes nothing.
C17_SubmitTestFrame ==
  /\ [](testSubmitted => submitTest = testSubmitted)
  /\ [][SubmitTestClick =>
          /\ testSubmitted'
          /\ UNCHANGED << testId, test, error, loading, solutions, questionStates,
                          hintReqs, solReqs, testReqs >>
          /\ SumScores(questionStates', DOMAIN questionStates') = calculateTotalScore
          /\ CountSubmitted(questionStates') = countAnsweredQuestions]_vars

\* a submitted test with one question submitted for 4 points and another
\* question holding a selection that was not submitted
C17_Witness ==
  /\ testSubmitted
  /\ calculateTotalScore = 4
  /\ countAnsweredQuestions = 1
  /\ \E k \in RenderedKeys : ~NoSelection(qState(k)) /\ ~qState(k).submitted

\* C18: once the test is submitted the result display of every question of
\* the test is visible (the result block is rendered and the options show
\* correct / incorrect), also for the questions not submitted individually.
C18_ResultsVisibleAfterSubmitTest ==
  testSubmitted =>
    \A k \in RenderedKeys : ResultDisplayRendered(k) /\ showResult(k)

\* C19, first half: a load started with a non-blank id and a Back click
\* empty the question states and the solution states and reset
\* testSubmitted.
C19_DiscardStep ==
  [][(BackClick \/ (~IsBlank(testId) /\ (FetchTestClick \/ FetchTestEnter))) =>
       /\ questionStates' = EmptyObj
       /\ solutions' = EmptyObj
       /\ testSubmitted' = FALSE]_vars

\* C19: a load started with a non-blank id and a Back click discard all
\* per-question state, so that nothing of the previous test shows in the
\* next one: while the next test is shown no hint, solution, error, answer,
\* score or submission flag comes from a request of the previous test.
C19_NothingOfPreviousTestVisible ==
  [][/\ (BackClick \/ (~IsBlank(testId) /\ (FetchTestClick \/ FetchTestEnter))) =>
          /\ questionStates' = EmptyObj
          /\ solutions' = EmptyObj
          /\ testSubmitted' = FALSE
     /\ (test # "null" /\ test' = test
           /\ ((\E r \in BagToSet(hintReqs) : (r.stale /\ hintReqs' = BagRemove(hintReqs, r)))
                 \/ (\E r \in BagToSet(solReqs) : (r.stale /\ solReqs' = BagRemove(solReqs, r))))) =>
          \A k \in Keys :
            /\ \A f \in {"aiHints", "aiSolution", "hintError", "solutionError"} :
                 Has(Lookup(solutions', k), f) =>
                   (Has(solutionState(k), f) /\ solutions'[k][f] = solutionState(k)[f])
            /\ \A f \in {"selectedAnswer", "score", "submitted", "hintsUsed"} :
                 Has(Lookup(questionStates', k), f) =>
                   (Has(qState(k), f) /\ questionStates'[k][f] = qState(k)[f])]_vars

\* ------------------------------------------------------------ server routes
\* an optional string that is absent
Undefined == "<undefined>"

\* JavaScript truthiness of an optional string
Truthy(x) == x # Undefined /\ x # ""

\* Response.ok
ResponseOk(status) == status >= 200 /\ status <= 299

\* NextResponse.json(body, { status }); upstream records whether the route
\* has called its upstream service
JsonResponse(status, message, doc, text, upstream) ==
  [kind |-> "json", status |-> status, error |-> message, doc |-> doc,
   solution |-> text, upstream |-> upstream]

\* an exception thrown inside the try block of a route
Thrown(upstream) ==
  [kind |-> "exception", status |-> 0, error |-> "", doc |-> "",
   solution |-> "", upstream |-> upstream]

\* try { ... } catch (error) { return NextResponse.json({ error: message }, { status: 500 }) }
Catch(result, message) ==
  IF result.kind = "exception"
    THEN JsonResponse(500, message, "", "", result.upstream)
    ELSE result

\* GET /api/test/[id], the try block: fetch from the CMS
TestRouteBody(req) ==
  IF req.up.throws THEN Thrown(TRUE)
  ELSE IF ~ResponseOk(req.up.status)
    THEN IF req.up.status = 404
           THEN JsonResponse(404, "Test not found", "", "", TRUE)
           ELSE Thrown(TRUE)
  ELSE IF ~req.up.jsonOk THEN Thrown(TRUE)
  ELSE JsonResponse(200, "", req.id, "", TRUE)

\* GET /api/test/[id] mapping the 404 of the CMS like any other failure
\* (sensitivity of C20)
TestRouteGET_No404(req) ==
  Catch(IF req.up.throws \/ ~ResponseOk(req.up.status) \/ ~req.up.jsonOk
          THEN Thrown(TRUE)
          ELSE JsonResponse(200, "", req.id, "", TRUE),
        "Failed to fetch test from CMS")

\* GET /api/test/[id]
TestRouteGET(req) == Catch(TestRouteBody(req), "Failed to fetch test from CMS")

\* GET /api/generate-solution: the default prompts
PromptRouteGET(req) == JsonResponse(200, "", "prompts", "", FALSE)

\* POST /api/generate-solution, the try block
GenerateSolutionBody(req) ==
  IF ~req.bodyOk THEN Thrown(FALSE)
  ELSE IF ~Truthy(req.questionText)
    THEN JsonResponse(400, "Question text is required", "", "", FALSE)
  ELSE IF req.up.throws THEN Thrown(TRUE)
  ELSE IF ~ResponseOk(req.up.status) THEN Thrown(TRUE)
  ELSE IF ~req.up.jsonOk THEN Thrown(TRUE)
  ELSE LET solution ==
             IF Truthy(req.up.content) THEN req.up.content
             ELSE IF Truthy(req.up.reasoning) THEN req.up.reasoning
             ELSE "No solution generated"
       IN JsonResponse(200, "", "", solution, TRUE)

\* POST /api/generate-solution
GenerateSolutionPOST(req) == Catch(GenerateSolutionBody(req), "Failed to generate solution")

\* what an upstream service does with a request: the fetch throws, or it
\* answers with a status and a body that parses as JSON or does not; the
\* provider's message has an optional content and an optional reasoning
Upstream(throws, status, jsonOk, content, reasoning) ==
  [throws |-> throws, status |-> status, jsonOk |-> jsonOk,
   content |-> content, reasoning |-> reasoning]

CmsOutcomes ==
  {Upstream(TRUE, 0, FALSE, Undefined, Undefined)}
    \cup {Upstream(FALSE, st, j, Undefined, Undefined) :
            st \in {200, 401, 404, 500}, j \in BOOLEAN}

ProviderOutcomes ==
  {Upstream(TRUE, 0, FALSE, Undefined, Undefined)}
    \cup {Upstream(FALSE, st, j, c, r) :
            st \in {200, 429, 500}, j \in BOOLEAN,
            c \in {Undefined, "", "content"}, r \in {Undefined, "", "reasoning"}}

Request(route, id, bodyOk, questionText, type, up) ==
  [route |-> route, id |-> id, bodyOk |-> bodyOk, questionText |-> questionText,
   type |-> type, up |-> up]

\* the requests the routes are called with
RouteRequests ==
  {Request("GET /api/test/[id]", id, TRUE, Undefined, Undefined, up) :
     id \in {"t1", "t2"}, up \in CmsOutcomes}
    \cup {Request("GET /api/generate-solution", "", TRUE, Undefined, Undefined,
                  Upstream(FALSE, 0, FALSE, Undefined, Undefined))}
    \cup {Request("POST /api/generate-solution", "", b, q, t, up) :
            b \in BOOLEAN, q \in {Undefined, "", "question"},
            t \in {"hint", "solution"}, up \in ProviderOutcomes}

InitRoutes ==
  /\ PageInit
  /\ FnIdle
  /\ cms = Docs
  /\ limits = [req |-> 0, inFlight |-> 0, loads |-> 0, keys |-> {}]
  /\ routePc = "called"
  /\ routeIn \in RouteRequests
  /\ routeOut = "none"

\* the route called with routeIn answers with res
RouteReturns(route, res) ==
  /\ routePc = "called"
  /\ routeIn.route = route
  /\ routePc' = "returned"
  /\ routeOut' = res
  /\ UNCHANGED << testId, test, error, loading, solutions, questionStates,
                  testSubmitted, hintReqs, solReqs, testReqs, issued, loads,
                  cms, limits, fnPc, fnIn, fnOut, routeIn >>

TestRouteReturn == RouteReturns("GET /api/test/[id]", TestRouteGET(routeIn))

PromptRouteReturn == RouteReturns("GET /api/generate-solution", PromptRouteGET(routeIn))

GenerateSolutionReturn ==
  RouteReturns("POST /api/generate-solution", GenerateSolutionPOST(routeIn))

NextRoutes ==
  \/ TestRouteReturn
  \/ PromptRouteReturn
  \/ GenerateSolutionReturn

SpecRoutes == InitRoutes /\ [][NextRoutes]_vars

\* C20: every route answers with a JSON response, never with an exception.
\* The test route gives 200 with the document when the CMS answers 2xx with
\* JSON, 404 "Test not found" when the CMS answers 404, and a 5xx error for
\* every other failure.  The solution route gives 400 without calling the
\* provider when questionText is missing, a non-2xx error when the provider
\* throws or fails, and 200 with a non-empty solution otherwise.
C20_RoutesAlwaysAnswer ==
  routePc = "returned" =>
    LET q == routeIn
        up == routeIn.up
        upFine == ~up.throws /\ up.status \in 200..299 /\ up.jsonOk
        isError == routeOut.error # "" /\ routeOut.solution = "" /\ routeOut.doc = ""
    IN /\ routeOut.kind = "json"
       /\ q.route = "GET /api/test/[id]" =>
            /\ upFine => (routeOut.status = 200 /\ routeOut.doc = q.id /\ routeOut.error = "")
            /\ (~up.throws /\ up.status = 404) =>
                 (routeOut.status = 404 /\ routeOut.error = "Test not found" /\ isError)
            /\ (~upFine /\ ~(~up.throws /\ up.status = 404)) =>
                 (routeOut.status \in 500..599 /\ isError)
       /\ q.route = "POST /api/generate-solution" =>
            /\ (q.bodyOk /\ q.questionText \in {Undefined, ""}) =>
                 (routeOut.status = 400 /\ isError /\ ~routeOut.upstream)
            /\ (q.bodyOk /\ q.questionText \notin {Undefined, ""} /\ ~upFine) =>
                 (routeOut.status \notin 200..299 /\ isError)
            /\ (q.bodyOk /\ q.questionText \notin {Undefined, ""} /\ upFine) =>
                 /\ routeOut.status = 200
                 /\ routeOut.error = ""
                 /\ routeOut.solution \notin {Undefined, ""}
            /\ ~q.bodyOk => (routeOut.status \notin 200..299 /\ isError)

\* the CMS answered 404 and the test route answered 404 "Test not found"
C20_Witness ==
  /\ routePc = "returned"
  /\ routeIn.route = "GET /api/test/[id]"
  /\ routeIn.up.status = 404
  /\ routeOut.status = 404
  /\ routeOut.error = "Test not found"

\* ------------------------------------------------------- prompt assembly
\* POST /api/generate-solution builds the prompt it sends to the provider.
\* A string is a sequence of atoms: an atom is one character of request data,
\* one placeholder token, or one fixed piece of text of the code.

MaxTextLen == 2
MaxTemplateLen == 3

QUESTION_CONTENT == "{{QUESTION_CONTENT}}"
HINT_INSTRUCTIONS == "{{HINT_INSTRUCTIONS}}"
PREVIOUS_HINTS == "{{PREVIOUS_HINTS}}"

Tokens == {QUESTION_CONTENT, HINT_INSTRUCTIONS, PREVIOUS_HINTS}

\* characters of question texts, option texts and hints
PromptChars == {"x", "$", "&"}

\* atoms of a custom template
TemplateAtoms == {"a"} \cup Tokens

SeqsUpTo(S, n) == UNION {[1..m -> S] : m \in 0..n}

\* String.prototype.indexOf for a one-atom pattern; 0 when absent
IndexOf(s, pat) ==
  IF \E i \in 1..Len(s) : s[i] = pat
    THEN CHOOSE i \in 1..Len(s) : s[i] = pat /\ \A j \in 1..(i - 1) : s[j] # pat
    ELSE 0

\* GetSubstitution of String.prototype.replace with a string pattern: in the
\* replacement text "$$" stands for "$", "$&" for the matched text, "$`" for
\* the text before the match and "$'" for the text after it
RECURSIVE GetSubstitution(_, _, _, _)
GetSubstitution(rep, matched, before, after) ==
  IF rep = << >> THEN << >>
  ELSE IF Len(rep) >= 2 /\ rep[1] = "$" /\ rep[2] = "$"
    THEN << "$" >> \o GetSubstitution(SubSeq(rep, 3, Len(rep)), matched, before, after)
  ELSE IF Len(rep) >= 2 /\ rep[1] = "$" /\ rep[2] = "&"
    THEN matched \o GetSubstitution(SubSeq(rep, 3, Len(rep)), matched, before, after)
  ELSE IF Len(rep) >= 2 /\ rep[1] = "$" /\ rep[2] = "`"
    THEN before \o GetSubstitution(SubSeq(rep, 3, Len(rep)), matched, before, after)
  ELSE IF Len(rep) >= 2 /\ rep[1] = "$" /\ rep[2] = "'"
    THEN after \o GetSubstitution(SubSeq(rep, 3, Len(rep)), matched, before, after)
  ELSE << rep[1] >> \o GetSubstitution(Tail(rep), matched, before, after)

\* String.prototype.replace(pat, rep) with a string pattern: the first
\* occurrence only
replace(s, pat, rep) ==
  LET i == IndexOf(s, pat)
      before == SubSeq(s, 1, i - 1)
      after == SubSeq(s, i + 1, Len(s))
  IN IF i = 0 THEN s
     ELSE before \o GetSubstitution(rep, << pat >>, before, after) \o after

DEFAULT_SOLUTION_PROMPT ==
  << "<solution instructions>", QUESTION_CONTENT, "<solution format>" >>

DEFAULT_HINT_PROMPT ==
  << "<hint instructions>", QUESTION_CONTENT, "<hint format>", HINT_INSTRUCTIONS >>

RECURSIVE optionLines(_, _)
optionLines(options, idx) ==
  IF idx >= Len(options) THEN << >>
  ELSE << fromCharCode(65 + idx), ". " >> \o options[idx + 1] \o << "\n" >>
         \o optionLines(options, idx + 1)

questionContent(req) ==
  (IF req.passageText # << >>
     THEN << "**Passage:**\n" >> \o req.passageText \o << "\n\n" >>
     ELSE << >>)
  \o << "**Question:**\n" >> \o req.questionText \o << "\n\n" >>
  \o (IF Len(req.options) > 0
        THEN << "**Options:**\n" >> \o optionLines(req.options, 0)
        ELSE << >>)

\* previousHints.map((hint, idx) => `Hint ${idx + 1}: ${hint}`).join("\n")
RECURSIVE hintLines(_, _)
hintLines(previousHints, idx) ==
  IF idx >= Len(previousHints) THEN << >>
  ELSE (IF idx > 0 THEN << "\n" >> ELSE << >>)
         \o << "Hint ", ToString(idx + 1), ": " >> \o previousHints[idx + 1]
         \o hintLines(previousHints, idx + 1)

hintInstructions(req) ==
  IF Len(req.previousHints) > 0
    THEN << "Previously given hints:\n" >> \o hintLines(req.previousHints, 0)
           \o << "\n\nProvide the next hint that builds on the previous hints above." >>
    ELSE << "Provide a helpful hint to guide toward solving this problem." >>

defaultPrompt(req) ==
  IF req.type = "hint" THEN DEFAULT_HINT_PROMPT ELSE DEFAULT_SOLUTION_PROMPT

promptTemplate(req) ==
  IF req.customPrompt # << >> THEN req.customPrompt ELSE defaultPrompt(req)

finalPrompt(req) ==
  replace(replace(replace(promptTemplate(req),
                          QUESTION_CONTENT, questionContent(req)),
                  HINT_INSTRUCTIONS, hintInstructions(req)),
          PREVIOUS_HINTS, hintInstructions(req))

\* the bodies POST /api/generate-solution is called with; an absent or empty
\* field is << >>
PromptRequests ==
  [questionText : SeqsUpTo(PromptChars, MaxTextLen),
   passageText : {<< >>, << "x" >>},
   options : {<< >>, << << "x" >>, << "$", "&" >> >>},
   customPrompt : SeqsUpTo(TemplateAtoms, MaxTemplateLen),
   type : {"hint", "solution"},
   previousHints : {<< >>, << << "x" >> >>, << << "$", "$" >>, << "x" >> >>}]

InitPrompt ==
  /\ PageInit
  /\ FnIdle
  /\ cms = Docs
  /\ limits = [req |-> 0, inFlight |-> 0, loads |-> 0, keys |-> {}]
  /\ routePc = "called"
  /\ routeIn \in PromptRequests
  /\ routeOut = "none"

\* POST /api/generate-solution with a provider that answers: the prompt of
\* the provider call, if the route makes one, and the route's response
GenerateSolutionPrompt ==
  /\ routePc = "called"
  /\ routePc' = "returned"
  /\ LET present == routeIn.questionText # << >>
     IN routeOut' =
          [sent |-> present,
           finalPrompt |-> IF present THEN finalPrompt(routeIn) ELSE << >>,
           response |->
             GenerateSolutionPOST(
               Request("POST /api/generate-solution", "", TRUE,
                       IF present THEN "question" ELSE "", routeIn.type,
                       Upstream(FALSE, 200, TRUE, "content", Undefined)))]
  /\ UNCHANGED << testId, test, error, loading, solutions, questionStates,
                  testSubmitted, hintReqs, solReqs, testReqs, issued, loads,
                  cms, limits, fnPc, fnIn, fnOut, routeIn >>

NextPrompt == GenerateSolutionPrompt

SpecPrompt == InitPrompt /\ [][NextPrompt]_vars

\* the template with every occurrence of a token replaced by its text,
\* atom for atom
RECURSIVE Substituted(_, _, _)
Substituted(template, content, instructions) ==
  IF template = << >> THEN << >>
  ELSE (IF template[1] = QUESTION_CONTENT THEN content
        ELSE IF template[1] \in {HINT_INSTRUCTIONS, PREVIOUS_HINTS} THEN instructions
        ELSE << template[1] >>)
       \o Substituted(Tail(template), content, instructions)

Occurrences(s, atom) == Cardinality({i \in 1..Len(s) : s[i] = atom})

\* C21: the prompt sent to the provider is the chosen template with
\* {{QUESTION_CONTENT}} replaced by the assembled question content and
\* {{HINT_INSTRUCTIONS}} / {{PREVIOUS_HINTS}} replaced by the hint
\* instructions, atom for atom, whatever characters the content holds
\* (stated for the templates that hold each token at most once).
C21_PromptSubstitutedVerbatim ==
  (routePc = "returned" /\ routeOut.sent
     /\ \A t \in Tokens : Occurrences(promptTemplate(routeIn), t) <= 1)
    => routeOut.finalPrompt =
         Substituted(promptTemplate(routeIn), questionContent(routeIn),
                     hintInstructions(routeIn))

\* ------------------------------------------------------------ C22 .. C30

\* the requests a step has put in flight
Started(before, after) ==
  {r \in BagToSet(after) : ~r.stale /\ CopiesIn(r, after) > CopiesIn(r, before)}

\* C22: a step that starts a hint request for a key sets the key's
\* hintLoading, leaves its hints as they were, and the request carries as
\* previousHints exactly the hints the key held at that moment, in order; a
\* solution request carries no hint history.
C22_HintRequestCarriesHistory ==
  [][/\ \A r \in Started(hintReqs, hintReqs') :
          /\ Get(solutions'[r.key], "hintLoading", FALSE)
          /\ solutions'[r.key].aiHints = Get(solutionState(r.key), "aiHints", << >>)
          /\ r.previousHints = Get(solutionState(r.key), "aiHints", << >>)
     /\ \A r \in Started(solReqs, solReqs') :
          /\ Get(solutions'[r.key], "solutionLoading", FALSE)
          /\ "previousHints" \notin DOMAIN r]_vars

\* a second hint request is in flight: it carries the first hint, which the
\* key still shows while the request is pending
C22_Witness ==
  \E r \in BagToSet(hintReqs) :
    /\ ~r.stale
    /\ r.previousHints = << 1 >>
    /\ Has(solutions, r.key)
    /\ solutions[r.key].hintLoading
    /\ solutions[r.key].aiHints = << 1 >>

\* C23: in every reachable state and for every question key, hintsUsed
\* equals the length of the key's hint sequence, an absent state counting as
\* 0 and as the empty sequence.
C23_HintsUsedIsHintCount ==
  \A k \in Keys :
    Get(qState(k), "hintsUsed", 0) = Len(Get(solutionState(k), "aiHints", << >>))

\* a key that was answered, received a hint and then had a hint fail
C23_Witness ==
  \E k \in Keys :
    /\ Has(questionStates, k)
    /\ ~NoSelection(questionStates[k])
    /\ questionStates[k].hintsUsed = 1
    /\ Has(solutions, k)
    /\ Len(solutions[k].aiHints) = 1
    /\ Get(solutions[k], "hintError", "") # ""

IsPrefix(s, t) == Len(s) <= Len(t) /\ SubSeq(t, 1, Len(s)) = s

\* the hints of key k in a solutions object
hintsOf(sols, k) == Get(Lookup(sols, k), "aiHints", << >>)

\* C24: while a test stays loaded, every key's hint sequence is append-only:
\* in every step the old sequence is a prefix of the new one and at most one
\* hint is added, at the end.
C24_HintsAppendOnly ==
  [][(test # "null" /\ test' = test) =>
       \A k \in Keys :
         /\ IsPrefix(hintsOf(solutions, k), hintsOf(solutions', k))
         /\ Len(hintsOf(solutions', k)) <= Len(hintsOf(solutions, k)) + 1]_vars

\* the test was submitted while a second hint was loading and that hint
\* failed: the first hint is still there
C24_Witness ==
  \E k \in Keys :
    /\ test # "null"
    /\ testSubmitted
    /\ hintsOf(solutions, k) = << 1 >>
    /\ Get(solutionState(k), "hintError", "") # ""
    /\ ~Get(solutionState(k), "hintLoading", FALSE)

\* a hint or a solution is loading for key k
Pending(k) ==
  Get(solutionState(k), "hintLoading", FALSE)
    \/ Get(solutionState(k), "solutionLoading", FALSE)

\* the run may still issue a request
RequestBudgetLeft ==
  /\ issued < limits.req
  /\ BagCardinality(hintReqs) + BagCardinality(solReqs) < limits.inFlight

\* the keys whose QuestionState or HintSolutionState a step changes
ChangedKeys ==
  {k \in Keys : \/ Lookup(questionStates, k) # Lookup(questionStates', k)
                \/ Lookup(solutions, k) # Lookup(solutions', k)}

\* C25: a step that is not the reset of fetchTest or Back changes the
\* QuestionState and HintSolutionState of at most one key, and while a hint
\* or solution is pending on key k every operation on another key j that j's
\* own state allows still takes effect.
C25_PerKeyIndependence ==
  /\ [][(solutions' # EmptyObj \/ questionStates' # EmptyObj)
          => Cardinality(ChangedKeys) <= 1]_vars
  /\ [](\A k \in Keys : \A j \in Keys \ {k} :
          (test # "null" /\ j \in RenderedKeys /\ Pending(k)) =>
            /\ ~isQuestionSubmitted(j) =>
                 \A l \in OptionLetters(problemAt(j)) :
                   ENABLED (OptionClick(j, l) /\ Get(Lookup(questionStates', j), "selectedAnswer", << >>) = l)
            /\ (~isQuestionSubmitted(j) /\ problemAt(j).options > 0
                  /\ ~NoSelection(qState(j))) =>
                 ENABLED (SubmitAnswerClick(j) /\ Get(Lookup(questionStates', j), "submitted", FALSE))
            /\ (~isQuestionSubmitted(j) /\ problemAt(j).options > 0
                  /\ ~Get(solutionState(j), "hintLoading", FALSE)
                  /\ RequestBudgetLeft) =>
                 ENABLED (HintClick(j) /\ Get(Lookup(solutions', j), "hintLoading", FALSE))
            /\ (isQuestionSubmitted(j)
                  /\ ~Get(solutionState(j), "solutionLoading", FALSE)
                  /\ RequestBudgetLeft) =>
                 ENABLED (SolutionClick(j) /\ Get(Lookup(solutions', j), "solutionLoading", FALSE)))

\* a hint is still loading for one key while another key, whose hint was
\* requested later, has already received it
C25_Witness ==
  \E k \in Keys : \E j \in Keys \ {k} :
    /\ Get(solutionState(k), "hintLoading", FALSE)
    /\ hintsOf(solutions, k) = << >>
    /\ hintsOf(solutions, j) = << 1 >>
    /\ ~Pending(j)

\* the hint and solution requests in flight
InFlight == BagCardinality(hintReqs) + BagCardinality(solReqs)

\* C26: with a gateway that eventually answers or errors, the requests in
\* flight eventually complete, the step that completes a request for a key
\* leaves the key's hintLoading (solutionLoading) false, and no key stays
\* loading forever.
C26_RequestsComplete ==
  /\ (InFlight > 0) ~> (InFlight = 0)
  /\ \A k \in Keys :
       /\ Get(solutionState(k), "hintLoading", FALSE)
            ~> ~Get(solutionState(k), "hintLoading", FALSE)
       /\ Get(solutionState(k), "solutionLoading", FALSE)
            ~> ~Get(solutionState(k), "solutionLoading", FALSE)
  /\ [][/\ \A r \in BagToSet(hintReqs) :
             CopiesIn(r, hintReqs') < CopiesIn(r, hintReqs)
               => ~Get(Lookup(solutions', r.key), "hintLoading", FALSE)
        /\ \A r \in BagToSet(solReqs) :
             CopiesIn(r, solReqs') < CopiesIn(r, solReqs)
               => ~Get(Lookup(solutions', r.key), "solutionLoading", FALSE)]_vars

\* a hint request has failed: nothing is in flight, the key is not loading
\* and its hint button is enabled for a retry
C26_Witness ==
  \E k \in Keys :
    /\ test # "null"
    /\ InFlight = 0
    /\ Get(solutionState(k), "hintError", "") # ""
    /\ hintsOf(solutions, k) = << >>
    /\ HintButtonEnabled(k)

\* C27: in every reachable state every QuestionState has hintsUsed >= 0 and
\* 0 <= score <= 4, also when hintsUsed >= 4, and a positive score only when
\* the question is submitted with isCorrect true; hence
\* totalScore <= 4 * answeredCount.
C27_ScoreBounds ==
  /\ \A k \in DOMAIN questionStates :
       LET s == questionStates[k] IN
         /\ Get(s, "hintsUsed", 0) >= 0
         /\ Get(s, "score", 0) >= 0
         /\ Get(s, "score", 0) <= 4
         /\ Get(s, "score", 0) > 0 =>
              (Get(s, "submitted", FALSE) /\ Get(s, "isCorrect", FALSE))
  /\ calculateTotalScore >= 0
  /\ calculateTotalScore <= 4 * countAnsweredQuestions

\* a correct answer submitted after four hints or more: score 0, total 0
C27_Witness ==
  \E k \in DOMAIN questionStates :
    /\ questionStates[k].submitted
    /\ Get(questionStates[k], "isCorrect", FALSE)
    /\ questionStates[k].score = 0
    /\ questionStates[k].hintsUsed >= 4
    /\ calculateTotalScore = 0
    /\ countAnsweredQuestions = 1

\* Hints Display of a question whose HintSolutionState is st: the panel is
\* rendered when there are hints or one is loading, and shows hintError in
\* place of the hints when hintError is set
HintsDisplay(st) ==
  IF ~(Len(Get(st, "aiHints", << >>)) > 0 \/ Get(st, "hintLoading", FALSE))
    THEN [shows |-> "nothing", hints |-> << >>, message |-> ""]
  ELSE IF Get(st, "hintError", "") # ""
    THEN [shows |-> "error", hints |-> << >>, message |-> st.hintError]
  ELSE IF Len(Get(st, "aiHints", << >>)) > 0
    THEN [shows |-> "hints", hints |-> st.aiHints, message |-> ""]
  ELSE [shows |-> "spinner", hints |-> << >>, message |-> ""]

\* AI Solution box of a submitted question whose HintSolutionState is st
AiSolutionDisplay(st) ==
  IF Get(st, "solutionLoading", FALSE)
    THEN [shows |-> "spinner", text |-> ""]
  ELSE IF Get(st, "solutionError", "") # ""
    THEN [shows |-> "error", text |-> st.solutionError]
  ELSE IF Get(st, "aiSolution", "") # ""
    THEN [shows |-> "solution", text |-> st.aiSolution]
  ELSE [shows |-> "placeholder", text |-> ""]

\* C28: a successful hint (solution) request stores its result and that
\* result is what the question then displays, also when an earlier request
\* for the key has failed: the step that adds a hint leaves the hints
\* displayed, and the step that stores a solution leaves that solution
\* displayed.
C28_ResultDisplayedAfterFailure ==
  [][\A k \in Keys :
       /\ Len(hintsOf(solutions', k)) > Len(hintsOf(solutions, k)) =>
            HintsDisplay(Lookup(solutions', k)) =
              [shows |-> "hints", hints |-> hintsOf(solutions', k), message |-> ""]
       /\ (\E r \in BagToSet(solReqs), t \in SolutionTexts :
             r.key = k /\ SolutionSuccess(r, t)) =>
            AiSolutionDisplay(Lookup(solutions', k)) =
              [shows |-> "solution", text |-> Lookup(solutions', k).aiSolution]]_vars

\* C29: while the same test stays loaded, a submitted question stays
\* submitted with the selectedAnswer, isCorrect and score it has, a hint that
\* arrives after the submission adds 1 to hintsUsed and leaves the score as
\* recorded, and the total score never decreases.
C29_SubmittedResultFrozen ==
  [][(test # "null" /\ test' = test) =>
       /\ \A k \in DOMAIN questionStates :
            questionStates[k].submitted =>
              /\ Has(questionStates', k)
              /\ questionStates'[k].submitted
              /\ questionStates'[k].selectedAnswer = questionStates[k].selectedAnswer
              /\ questionStates'[k].isCorrect = questionStates[k].isCorrect
              /\ questionStates'[k].score = questionStates[k].score
              /\ Len(hintsOf(solutions', k)) > Len(hintsOf(solutions, k)) =>
                   questionStates'[k].hintsUsed = questionStates[k].hintsUsed + 1
       /\ SumScores(questionStates', DOMAIN questionStates') >= calculateTotalScore]_vars

\* a question submitted correctly while its first hint was loading: the
\* hint arrived afterwards and the score is still 4
C29_Witness ==
  \E k \in DOMAIN questionStates :
    /\ questionStates[k].submitted
    /\ questionStates[k].isCorrect
    /\ questionStates[k].score = 4
    /\ questionStates[k].hintsUsed = 1
    /\ hintsOf(solutions, k) = << 1 >>
    /\ calculateTotalScore = 4

\* C30: when test loads overlap, loading is true exactly while some load is
\* still in flight, and once every response has arrived the page shows the
\* outcome of one load, the most recently started one: a test with no load
\* error, or a load error with no test.
C30_OverlappingLoads ==
  /\ loading <=> BagCardinality(testReqs) > 0
  /\ (BagCardinality(testReqs) = 0 /\ error \in FetchErrors) => test = "null"

====
